---- MODULE Spec2Model ----
(***************************************************************************)
(* Model of festivus (src/src/lib.rs): calculate_fee and                   *)
(* predict_weight_for_inputs.  One invocation runs                         *)
(*   Begin -> Select -> PredictWeight -> (UseOverride | Fetch -> ParseJson)*)
(*         -> Project                                                      *)
(* and Again starts the next invocation with the same arguments, so that   *)
(* results of repeated invocations can be compared.                        *)
(*                                                                         *)
(* The 64-bit integers of the program (u64 amount and rates, i64           *)
(* amount_sat and amount_remaining) are kept as IntBits-bit integers with  *)
(* the same cast and wrap-around rules.  The weight arithmetic of the      *)
(* rust-bitcoin crate (InputWeightPrediction, transaction::predict_weight, *)
(* Weight::to_vbytes_ceil) is modelled at the places where lib.rs calls it.*)
(***************************************************************************)
EXTENDS Integers, Sequences, FiniteSets, TLC

\* ------------------------------------------------------------------ bounds
MaxCoins == 2
MaxCalls == 2
IntBits == 16

\* Values the inputs are drawn from.
U64_MOD == 2 ^ IntBits
U64_MAX == U64_MOD - 1
I64_MAX == 2 ^ (IntBits - 1) - 1
Amounts == {0, 1, 2}
AddressTypes == {1, 4}
Targets == {0, 1, 2, 3, I64_MAX + 1}
Rates == {1, U64_MAX}
Keys == {0, 1}

\* Option<T>: None is the empty sequence, Some(x) is <<x>>.
None == <<>>
Some(x) == <<x>>

\* ------------------------------------------------ integer casts (u64/i64)
\* `x as i64` for a u64 x.
AsI64(x) == IF x > I64_MAX THEN x - U64_MOD ELSE x

\* i64 result of a subtraction when overflow checks are off.
WrapI64(x) == AsI64(((x % U64_MOD) + U64_MOD) % U64_MOD)

InI64(x) == x >= -(I64_MAX + 1) /\ x <= I64_MAX

\* ---------------------------------------------------------------- the data
\* lnrpc::Utxo: amount_sat, address_type, outpoint.output_index.  The
\* output_index is the coin's identity (its position in the caller's list).
Utxo(a, t, i) == [amount_sat |-> a, address_type |-> t, output_index |-> i]

RECURSIVE UtxoLists(_)
UtxoLists(n) ==
    IF n = 0 THEN {<<>>}
    ELSE LET shorter == UtxoLists(n - 1)
         IN  shorter \cup
             { Append(l, Utxo(a, t, Len(l) + 1)) :
                 l \in {s \in shorter : Len(s) = n - 1}, a \in Amounts, t \in AddressTypes }

Tiers == <<"fastest_fee", "half_hour_fee", "hour_fee", "economy_fee", "minimum_fee">>

\* RecommendedFess as the five rates in the order of Tiers.
RecommendedFess(f) == <<f, f, f, f, f>>

\* What the fee-rate endpoint can answer: the transport fails, or a body
\* arrives that does or does not parse as the five-field object.
Responses ==
    { [transport |-> FALSE, json |-> FALSE, fees |-> <<>>],
      [transport |-> TRUE, json |-> FALSE, fees |-> <<>>],
      [transport |-> TRUE, json |-> TRUE, fees |-> <<5, 4, 3, 2, 1>>],
      [transport |-> TRUE, json |-> TRUE, fees |-> <<U64_MAX, 4, 3, 2, 1>>] }

\* ------------------------------------------------------ sizes and weights
\* VarInt(n).size(); the model never needs a length above 0xFFFF.
VarIntSize(n) == IF n <= 252 THEN 1 ELSE IF n <= 65535 THEN 3 ELSE 5

\* A witness program script: version opcode, push opcode, program.
WitnessProgram(version, program_len, program) ==
    [version |-> version, program_len |-> program_len, program |-> program]

ScriptLen(s) == 1 + 1 + s.program_len

\* ScriptBuf::new_p2wsh(&WScriptHash::hash(..)): OP_0 and a 32-byte hash.
new_p2wsh(hash) == WitnessProgram(0, 32, hash)

\* A script whose length follows the key: 32 or 33 bytes of key.
new_p2tr_keylen(key) == WitnessProgram(1, 32 + key, key)

\* ScriptBuf::new_p2tr(&secp, pubkey, None): OP_1 and a 32-byte output key.
new_p2tr(key) == WitnessProgram(1, 32, key)

RECURSIVE SumSeq(_)
SumSeq(s) == IF s = <<>> THEN 0 ELSE Head(s) + SumSeq(Tail(s))

\* InputWeightPrediction::from_slice(input_script_len, witness_element_lengths)
from_slice(input_script_len, witness_element_lengths) ==
    [ script_size |-> input_script_len + VarIntSize(input_script_len),
      witness_size |->
        IF witness_element_lengths = <<>> THEN 0
        ELSE SumSeq([i \in DOMAIN witness_element_lengths |->
                        witness_element_lengths[i] + VarIntSize(witness_element_lengths[i])])
             + VarIntSize(Len(witness_element_lengths)) ]

P2WPKH_MAX == from_slice(0, <<72, 33>>)
P2TR_KEY_DEFAULT_SIGHASH == from_slice(0, <<64>>)

TAPROOT_PUBKEY == 4

\* Utxo::address_type(): the enum value of the code, the default
\* (WitnessPubkeyHash, 0) for a code outside the enum 0..5.
address_type(utxo) == IF utxo.address_type \in 0..5 THEN utxo.address_type ELSE 0

\* transaction::predict_weight(inputs, output_script_lens), in weight units.
predict_weight(inputs, output_script_lens) ==
    LET input_count == Len(inputs)
        partial_input_weight ==
            SumSeq([i \in DOMAIN inputs |-> inputs[i].script_size * 4 + inputs[i].witness_size])
        inputs_with_witnesses ==
            Cardinality({i \in DOMAIN inputs : inputs[i].witness_size > 0})
        output_count == Len(output_script_lens)
        output_scripts_size ==
            SumSeq([i \in DOMAIN output_script_lens |->
                       output_script_lens[i] + VarIntSize(output_script_lens[i])])
        input_weight == partial_input_weight + input_count * 4 * (32 + 4 + 4)
        output_size == 8 * output_count + output_scripts_size
        non_input_size ==
            4 + VarIntSize(input_count) + VarIntSize(output_count) + output_size + 4
    IN  IF inputs_with_witnesses = 0
        THEN non_input_size * 4 + input_weight
        ELSE non_input_size * 4 + input_weight + input_count - inputs_with_witnesses + 2

to_vbytes_floor(wu) == wu \div 4

\* Weight::to_vbytes_ceil
to_vbytes_ceil(wu) == (wu + 3) \div 4

\* ------------------------------------------------------- coin selection
\* x placed before the elements of its own amount_sat.
RECURSIVE InsertBeforeEqual(_, _)
InsertBeforeEqual(x, s) ==
    IF s = <<>> THEN <<x>>
    ELSE IF Head(s).amount_sat > x.amount_sat
         THEN <<Head(s)>> \o InsertBeforeEqual(x, Tail(s))
         ELSE <<x>> \o s

\* x placed in a list sorted by amount_sat descending, after every element
\* that does not compare greater under b.amount_sat.cmp(&a.amount_sat).
RECURSIVE Insert(_, _)
Insert(x, s) ==
    IF s = <<>> THEN <<x>>
    ELSE IF Head(s).amount_sat >= x.amount_sat
         THEN <<Head(s)>> \o Insert(x, Tail(s))
         ELSE <<x>> \o s

\* utxos.sort_by(|a, b| b.amount_sat.cmp(&a.amount_sat)): a stable sort.
RECURSIVE sort_by(_)
sort_by(s) ==
    IF s = <<>> THEN <<>>
    ELSE Insert(s[Len(s)], sort_by(SubSeq(s, 1, Len(s) - 1)))

\* utxos.iter().for_each(..): acc is the loop state after the coins before s.
RECURSIVE for_each(_, _)
for_each(s, acc) ==
    IF s = <<>> THEN acc
    ELSE IF acc.amount_remaining > 0
         THEN for_each(Tail(s),
                [ coins |-> Append(acc.coins, Head(s)),
                  amount_remaining |-> WrapI64(acc.amount_remaining - Head(s).amount_sat),
                  overflow |-> acc.overflow
                                 \/ ~InI64(acc.amount_remaining - Head(s).amount_sat) ])
         ELSE for_each(Tail(s), acc)

\* The weight prediction of one selected coin.
InputWeight(utxo) ==
    IF address_type(utxo) = TAPROOT_PUBKEY THEN P2TR_KEY_DEFAULT_SIGHASH ELSE P2WPKH_MAX

\* predict_weight_for_inputs(utxos, amount)
predict_weight_for_inputs(list, amt) ==
    LET sorted == sort_by(list)
        loop == for_each(sorted, [coins |-> <<>>, amount_remaining |-> AsI64(amt),
                                  overflow |-> FALSE])
    IN  [ sorted |-> sorted,
          coins |-> loop.coins,
          amount_remaining |-> loop.amount_remaining,
          overflow |-> loop.overflow,
          ok |-> ~(loop.amount_remaining > 0),
          txin |-> [i \in DOMAIN loop.coins |-> InputWeight(loop.coins[i])] ]

SyntheticTaprootUtxo(amt) == Utxo(AsI64(amt), TAPROOT_PUBKEY, 1)

\* The coin calculate_fee makes up when the caller passes no list.
SyntheticUtxo(amt) == Utxo(AsI64(amt), 1, 1)

\* -------------------------------------------------------- fee projection
\* virtual_bytes * rate in u64: the exact product, whether it overflowed,
\* and the wrapped value a build without overflow checks stores.
MulU64(a, b) == [overflow |-> a * b > U64_MAX, value |-> (a * b) % U64_MOD]

FeePairs(vb, f) == [i \in DOMAIN f |-> <<MulU64(vb, f[i]).value, f[i]>>]

AnyOverflow(vb, f) == \E i \in DOMAIN f : MulU64(vb, f[i]).overflow

RetryOnError(ok) == IF ok THEN "json" ELSE "rates"

\* `.await.map_err(|_| FestivusError::ReqwestError)?` after reqwest::get
AfterGet(ok) == IF ok THEN "json" ELSE "done"

\* ------------------------------------------------------------- the state
VARIABLES
    utxos,            \* argument: Option<Vec<Utxo>>
    amount,           \* argument: u64
    user_fee_rate,    \* argument: Option<u64>
    overflow_checks,  \* build profile: integer overflow panics (TRUE) or wraps
    pc,               \* position in calculate_fee
    pubkey,           \* the random x-only key of this invocation
    txn,              \* script_pubkeys of the two outputs
    utxo_list,        \* the list after `match utxos`
    sorted,           \* the list after sort_by
    coins,            \* the coins selected
    amount_remaining,
    inputs,           \* Vec<InputWeightPrediction>
    virtual_bytes,
    response,         \* Option: what the endpoint answered in this invocation
    fees,             \* RecommendedFess
    result,           \* what the invocation returned
    requests,         \* requests issued by this invocation
    steps,            \* the components this invocation has run, in order
    calls,            \* number of the current invocation
    returned          \* key, response and result of the earlier invocations

args == <<utxos, amount, user_fee_rate, overflow_checks>>
vars == <<utxos, amount, user_fee_rate, overflow_checks, pc, pubkey, txn, utxo_list,
          sorted, coins, amount_remaining, inputs, virtual_bytes, response, fees,
          result, requests, steps, calls, returned>>

Pending == [kind |-> "Pending", fees |-> <<>>]
Err(e) == [kind |-> e, fees |-> <<>>]
Ok(projected) == [kind |-> "Ok", fees |-> projected]
Panic == [kind |-> "Panic", fees |-> <<>>]

Fresh ==
    /\ pc = "begin"
    /\ pubkey = 0
    /\ txn = <<>>
    /\ utxo_list = <<>>
    /\ sorted = <<>>
    /\ coins = <<>>
    /\ amount_remaining = 0
    /\ inputs = <<>>
    /\ virtual_bytes = 0
    /\ response = None
    /\ fees = <<>>
    /\ result = Pending
    /\ requests = 0
    /\ steps = <<>>

Init ==
    /\ utxos \in {None} \cup {Some(l) : l \in UtxoLists(MaxCoins)}
    /\ amount \in Targets
    /\ user_fee_rate \in {None} \cup {Some(r) : r \in Rates}
    /\ overflow_checks \in BOOLEAN
    /\ calls = 1
    /\ returned = <<>>
    /\ Fresh

script_pubkey_lens(t) == [i \in DOMAIN t |-> ScriptLen(t[i])]

\* lib.rs 42-82: the random key, the two outputs, the default coin.
Begin ==
    /\ pc = "begin"
    /\ \E key \in Keys :
        /\ pubkey' = key
        /\ txn' = <<new_p2wsh(0), new_p2tr(key)>>
    /\ utxo_list' = IF utxos = None THEN <<SyntheticUtxo(amount)>> ELSE utxos[1]
    /\ pc' = "select"
    /\ UNCHANGED <<args, sorted, coins, amount_remaining, inputs, virtual_bytes,
                   response, fees, result, requests, steps, calls, returned>>

\* lib.rs 83, 118-154: predict_weight_for_inputs(utxos, amount)?
Select ==
    /\ pc = "select"
    /\ LET r == predict_weight_for_inputs(utxo_list, amount)
       IN  /\ sorted' = r.sorted
           /\ coins' = r.coins
           /\ amount_remaining' = r.amount_remaining
           /\ IF r.overflow /\ overflow_checks
              THEN /\ result' = Panic
                   /\ inputs' = inputs
                   /\ pc' = "done"
              ELSE IF ~r.ok
              THEN /\ result' = Err("NotEnoughBitcoin")
                   /\ inputs' = inputs
                   /\ pc' = "done"
              ELSE /\ result' = result
                   /\ inputs' = r.txin
                   /\ pc' = "weight"
    /\ steps' = Append(steps, "CoinSelector")
    /\ UNCHANGED <<args, pubkey, txn, utxo_list, virtual_bytes, response, fees,
                   requests, calls, returned>>

\* lib.rs 85-87
PredictWeight ==
    /\ pc = "weight"
    /\ virtual_bytes' = to_vbytes_ceil(predict_weight(inputs, script_pubkey_lens(txn)))
    /\ pc' = "rates"
    /\ steps' = Append(steps, "WeightEstimator")
    /\ UNCHANGED <<args, pubkey, txn, utxo_list, sorted, coins, amount_remaining, inputs,
                   response, fees, result, requests, calls, returned>>

\* lib.rs 90-98: the user provides a fee rate.
UseOverride ==
    /\ pc = "rates"
    /\ user_fee_rate # None
    /\ fees' = RecommendedFess(user_fee_rate[1])
    /\ pc' = "project"
    /\ steps' = Append(steps, "FeeRateSource")
    /\ UNCHANGED <<args, pubkey, txn, utxo_list, sorted, coins, amount_remaining, inputs,
                   virtual_bytes, response, result, requests, calls, returned>>

\* lib.rs 101-103: reqwest::get(..).await
Fetch ==
    /\ pc = "rates"
    /\ user_fee_rate = None
    /\ requests' = requests + 1
    /\ \E r \in Responses :
        /\ response' = Some(r)
        /\ pc' = AfterGet(r.transport)
        /\ result' = IF r.transport THEN result ELSE Err("ReqwestError")
    /\ steps' = Append(steps, "FeeRateSource")
    /\ UNCHANGED <<args, pubkey, txn, utxo_list, sorted, coins, amount_remaining, inputs,
                   virtual_bytes, fees, calls, returned>>

\* lib.rs 104-106: .json::<RecommendedFess>().await
ParseJson ==
    /\ pc = "json"
    /\ IF response[1].json
       THEN /\ fees' = response[1].fees
            /\ result' = result
            /\ pc' = "project"
       ELSE /\ fees' = fees
            /\ result' = Err("ReqwestError")
            /\ pc' = "done"
    /\ UNCHANGED <<args, pubkey, txn, utxo_list, sorted, coins, amount_remaining, inputs,
                   virtual_bytes, response, requests, steps, calls, returned>>

\* lib.rs 109-115
Project ==
    /\ pc = "project"
    /\ result' = IF AnyOverflow(virtual_bytes, fees) /\ overflow_checks
                 THEN Panic
                 ELSE Ok(FeePairs(virtual_bytes, fees))
    /\ pc' = "done"
    /\ steps' = Append(steps, "FeeProjector")
    /\ UNCHANGED <<args, pubkey, txn, utxo_list, sorted, coins, amount_remaining, inputs,
                   virtual_bytes, response, fees, requests, calls, returned>>

\* The caller invokes calculate_fee again with the same arguments.
Again ==
    /\ pc = "done"
    /\ calls < MaxCalls
    /\ calls' = calls + 1
    /\ returned' = Append(returned, [pubkey |-> pubkey, response |-> response,
                                     result |-> result])
    /\ pc' = "begin"
    /\ pubkey' = 0
    /\ txn' = <<>>
    /\ utxo_list' = <<>>
    /\ sorted' = <<>>
    /\ coins' = <<>>
    /\ amount_remaining' = 0
    /\ inputs' = <<>>
    /\ virtual_bytes' = 0
    /\ response' = None
    /\ fees' = <<>>
    /\ result' = Pending
    /\ requests' = 0
    /\ steps' = <<>>
    /\ UNCHANGED args

Next ==
    \/ Begin
    \/ Select
    \/ PredictWeight
    \/ UseOverride
    \/ Fetch
    \/ ParseJson
    \/ Project
    \/ Again

Spec == Init /\ [][Next]_vars

\* ------------------------------------------------------------ properties
TotalAmount(s) == SumSeq([i \in DOMAIN s |-> s[i].amount_sat])

Front(s) == SubSeq(s, 1, Len(s) - 1)

\* predict_weight_for_inputs has returned Ok in the current invocation.
SelectionSucceeded == Len(steps) >= 1 /\ ~(pc = "done" /\ Len(steps) = 1)

\* virtual_bytes holds the virtual size of the current invocation.
WeightComputed == Len(steps) >= 2

Pipeline == <<"CoinSelector", "WeightEstimator", "FeeRateSource", "FeeProjector">>

TaprootCoins == Cardinality({i \in DOMAIN coins : coins[i].address_type = 4})

OtherCoins == Cardinality({i \in DOMAIN coins : coins[i].address_type # 4})

\* C1 (Shortfall): when the caller's coins sum to less than the target, the
\* invocation issues no fee-rate request and returns NotEnoughBitcoin.
C1_Shortfall ==
    (utxos # None /\ TotalAmount(utxos[1]) < amount)
        => /\ requests = 0
           /\ pc = "done" => result = Err("NotEnoughBitcoin")

\* C2 (Coverage): after a successful selection the selected coins are a prefix
\* of the coins sorted by amount descending, they sum to at least the target
\* (remaining = target - sum <= 0), and without the last one they sum to less.
C2_Coverage ==
    SelectionSucceeded
        => /\ coins = SubSeq(sorted, 1, Len(coins))
           /\ \A i \in 1..(Len(sorted) - 1) : sorted[i].amount_sat >= sorted[i + 1].amount_sat
           /\ TotalAmount(coins) >= amount
           /\ amount_remaining = amount - TotalAmount(coins)
           /\ amount_remaining <= 0
           /\ coins # <<>> => TotalAmount(Front(coins)) < amount

\* C3 (Override): an invocation with an override r whose selection succeeded
\* returns Ok with rate r in all five tiers, and issues no fee-rate request.
C3_Override ==
    (user_fee_rate # None /\ SelectionSucceeded)
        => /\ requests = 0
           /\ pc = "done"
                => /\ result.kind = "Ok"
                   /\ \A i \in DOMAIN Tiers : result.fees[i][2] = user_fee_rate[1]

\* C4 (Linearity): in every Ok result each tier's fee is the exact integer
\* product of the virtual size and the tier's rate.
C4_Linearity ==
    (pc = "done" /\ result.kind = "Ok")
        => \A i \in DOMAIN Tiers : result.fees[i][1] = virtual_bytes * result.fees[i][2]

\* C5 as stated (absent coin list): the coin made up for an absent list is a
\* Taproot key-path coin of amount T, the virtual size is that of one Taproot
\* key-path input and the two outputs (154 vbytes), and selection succeeds.
C5_AbsentListTaproot ==
    utxos = None
        => /\ pc # "begin" => utxo_list = <<Utxo(amount, 4, 1)>>
           /\ result.kind # "NotEnoughBitcoin"
           /\ WeightComputed => (coins = utxo_list /\ virtual_bytes = 154)

\* C5 (absent coin list, amended): the coin made up for an absent list has
\* amount `T as i64` and address type 1, which is weighted as P2WPKH;
\* selection never fails; the virtual size is that of one maximum-size P2WPKH
\* input and the two outputs (165 vbytes) when `T as i64` is positive, and
\* that of no input and the two outputs (96 vbytes) otherwise.
C5_AbsentList ==
    utxos = None
        => /\ pc # "begin" => utxo_list = <<Utxo(AsI64(amount), 1, 1)>>
           /\ result.kind # "NotEnoughBitcoin"
           /\ WeightComputed
                => IF AsI64(amount) > 0
                   THEN coins = utxo_list /\ virtual_bytes = 165
                   ELSE coins = <<>> /\ virtual_bytes = 96

\* An invocation without a coin list that used the made-up coin and returned Ok.
C5_Witness ==
    /\ utxos = None
    /\ pc = "done"
    /\ result.kind = "Ok"
    /\ coins = utxo_list
    /\ virtual_bytes = 165

\* C6 (Stability): selected coins of equal amount keep the order of the
\* caller's list, and a selected coin precedes, in the caller's list, every
\* unselected coin of the same amount.
C6_Stability ==
    SelectionSucceeded
        => /\ \A i, j \in DOMAIN coins :
                (i < j /\ coins[i].amount_sat = coins[j].amount_sat)
                    => coins[i].output_index < coins[j].output_index
           /\ \A i \in DOMAIN coins : \A k \in DOMAIN utxo_list :
                (utxo_list[k].amount_sat = coins[i].amount_sat
                 /\ \A j \in DOMAIN coins : coins[j] # utxo_list[k])
                    => coins[i].output_index < utxo_list[k].output_index

\* Of two coins of one amount in the caller's list, only one was selected.
C6_Witness ==
    /\ SelectionSucceeded
    /\ utxos # None
    /\ \E i \in DOMAIN coins : \E k \in DOMAIN utxo_list :
        /\ utxo_list[k].amount_sat = coins[i].amount_sat
        /\ \A j \in DOMAIN coins : coins[j] # utxo_list[k]

\* C7 (Call ordering): an invocation issues at most one fee-rate request, only
\* without an override and only after selection and weight estimation, and its
\* steps are a prefix of selection, weight, rate resolution, projection.
C7_CallOrdering ==
    /\ requests <= 1
    /\ requests = 1
         => /\ user_fee_rate = None
            /\ Len(steps) >= 3
            /\ virtual_bytes > 0
    /\ Len(steps) <= Len(Pipeline)
    /\ steps = SubSeq(Pipeline, 1, Len(steps))

\* An invocation that issued its request and ran all four steps.
C7_Witness ==
    /\ requests = 1
    /\ pc = "done"
    /\ result.kind = "Ok"
    /\ steps = Pipeline

\* C8 (Atomic outcome): every invocation ends with a complete ProjectedFees,
\* NotEnoughBitcoin or ReqwestError; a failed or unparsable answer of the
\* endpoint ends it with ReqwestError.
C8_AtomicOutcome ==
    pc = "done"
        => /\ result.kind \in {"Ok", "NotEnoughBitcoin", "ReqwestError"}
           /\ result.kind = "Ok" <=> Len(result.fees) = Len(Tiers)
           /\ (response # None /\ ~(response[1].transport /\ response[1].json))
                => result = Err("ReqwestError")

C10_SameArguments ==
    pc = "done" => \A i \in DOMAIN returned : returned[i].result = result

\* C10 (determinism, amended): invocations with the same arguments that got
\* the same answer from the endpoint (or issued no request) return the same
\* result, whatever keys they generated.
C10_Determinism ==
    pc = "done"
        => \A i \in DOMAIN returned :
              returned[i].response = response => returned[i].result = result

\* A later invocation with another key and the same answer returned the same Ok.
C10_Witness ==
    /\ pc = "done"
    /\ result.kind = "Ok"
    /\ \E i \in DOMAIN returned :
        /\ returned[i].pubkey # pubkey
        /\ returned[i].response = response
        /\ returned[i].result = result

====
